---- MODULE Spec2Model ----
(***************************************************************************)
(* A model of interception/inputs.py: the synthetic-input operations built *)
(* on the module-wide driver context (move, click, press, write, scroll,   *)
(* hold), and the four capture/listen loops, each on a context of its own. *)
(*                                                                         *)
(* Times are in milliseconds (0.025 s = 25).  An operation of the input    *)
(* API is one atomic action; its effect is the list of events it produced  *)
(* on the module-wide context (sends and sleeps) and the way it ended.     *)
(* A capture/listen loop is modelled step by step (one action per call on  *)
(* its context), since its claims are about what happens between steps.    *)
(***************************************************************************)
EXTENDS Integers, Sequences, FiniteSets, TLC

\* ------------------------------------------------------------------ bounds
MaxPresses == 3        \* largest presses / clicks argument tried
MaxTerm == 2           \* longest term given to write
MaxStream == 3         \* longest stream of raw strokes fed to a loop
MaxFilterCalls == 3    \* longest sequence of set_filter calls on one context
MaxId == 22            \* largest device id classified

\* ------------------------------------------------------- program constants
MOUSE_BUTTON_DELAY == 30
KEY_PRESS_DELAY == 25
SCROLL_DELAY == 25
DEFAULT_INTERVAL == 100
DEFAULT_CLICK_DELAY == 300
DEFAULT_WRITE_INTERVAL == 50
keyboard == 1
mouse == 11
ESC == 1
NUM1 == 2
MINUS == 12
M == 50
MAX_KEYBOARD == 10
MAX_MOUSE == 10
COORD_MAX == 65535
KEY_DOWN == 0
KEY_UP == 1
MOUSE_LEFT_BUTTON_DOWN == 1
MOUSE_LEFT_BUTTON_UP == 2
MOUSE_WHEEL == 1024
MOUSE_MOVE_RELATIVE == 0
MOUSE_MOVE_ABSOLUTE == 1
MOUSE_WHEEL_UP == 120
MOUSE_WHEEL_DOWN == 65416
SCREEN_W == 4
SCREEN_H == 2

\* Optional[...] values: None is the empty set, a given value v is {v}.
None == {}
Some(v) == {v}
Get(o) == CHOOSE v \in o : TRUE

\* ------------------------------------------------------------ key tables
\* A sample of the closed key table: name -> scancode.
KEYBOARD_MAPPING == [k \in {"esc", "1", "-", "m"} |->
                       CASE k = "esc" -> ESC
                         [] k = "1"   -> NUM1
                         [] k = "-"   -> MINUS
                         [] k = "m"   -> M]

SUPPORTED_KEYS == DOMAIN KEYBOARD_MAPPING
SUPPORTED_BUTTONS == {"left", "right", "middle", "mouse4", "mouse5"}

\* Names tried as arguments: supported ones, an upper-case spelling, and
\* names outside the tables.  "#" stands for any character that is no key.
KeyNames == {"m", "M", "esc", "foo", "#"}
ButtonNames == {"left", "right", "LEFT", "foo"}
Chars == {"m", "M", "1", "#"}

\* str.lower()
lower(s) == CASE s = "M"    -> "m"
              [] s = "LEFT" -> "left"
              [] OTHER      -> s

\* MouseState.from_string(button) -> (down, up)
from_string(button) ==
    CASE button = "left"   -> << MOUSE_LEFT_BUTTON_DOWN, MOUSE_LEFT_BUTTON_UP >>
      [] button = "right"  -> << 4, 8 >>
      [] button = "middle" -> << 16, 32 >>
      [] button = "mouse4" -> << 64, 128 >>
      [] button = "mouse5" -> << 256, 512 >>

\* ---------------------------------------------------------------- strokes
KeyStroke(code, state, information) ==
    [type |-> "key", code |-> code, state |-> state, information |-> information]

MouseStroke(state, flags, rolling, x, y, information) ==
    [type |-> "mouse", state |-> state, flags |-> flags, rolling |-> rolling,
     x |-> x, y |-> y, information |-> information]

NoStroke == [type |-> "none", state |-> 0]

\* ------------------------------------------------------------ device ids
\* Faulty variant: keyboard slots counted from 0.
is_keyboard_zero_based(device) == device >= 0 /\ device < MAX_KEYBOARD

is_keyboard(device) == device >= 1 /\ device <= MAX_KEYBOARD
is_mouse(device) == device > MAX_KEYBOARD /\ device <= MAX_KEYBOARD + MAX_MOUSE
is_valid(device) == is_keyboard(device) \/ is_mouse(device)

VARIABLES
    INTERCEPTION_INSTALLED, \* did Interception() succeed when the module was loaded
    interception,           \* the module-wide context
    call,                   \* the call of the API being served, or the last one served
    trace,                  \* events of that call on the module-wide context
    outcome,                \* "ok", the error the call raised, or "running"
    result,                 \* the value a loop returned (0: none)
    pc,                     \* where the running loop is; "idle" when none runs
    context,                \* the running loop's own context
    pending,                \* raw strokes not yet delivered to the loop or the OS
    device,                 \* the loop's local `device`
    stroke,                 \* the loop's local `stroke`
    exc,                    \* the exception travelling through the loop's finally
    ctxlog                  \* native calls made on the loop's context, in order

apivars == << call, trace, outcome, result >>
loopvars == << pc, context, pending, device, stroke, exc, ctxlog >>
vars == << INTERCEPTION_INSTALLED, interception, call, trace, outcome, result,
           pc, context, pending, device, stroke, exc, ctxlog >>

\* ------------------------------------------------------- driver context
\* A context: its handle is open or torn down, and one mask per device type.
NewContext == [open |-> TRUE, kmask |-> {}, mmask |-> {}]
NoContext == [open |-> FALSE, kmask |-> {}, mmask |-> {}]

\* send(device, stroke) on a context: the error it raises, or "ok".
send_error(ctx, dev) ==
    IF ~ctx.open THEN "ContextClosedError"
    ELSE IF ~is_valid(dev) THEN "InvalidDeviceError"
    ELSE "ok"

\* Faulty variant: a wait that does not look at the state of the handle.
wait_unchecked(ctx) == "ok"

\* wait() on a context: the error it raises, or "ok".
wait_error(ctx) == IF ~ctx.open THEN "ContextClosedError" ELSE "ok"

\* receive(device) on a context whose pending strokes are `queue`.
receive_error(ctx, dev, queue) ==
    IF ~ctx.open THEN "ContextClosedError"
    ELSE IF queue = << >> \/ Head(queue).device # dev THEN "NoPendingStrokeError"
    ELSE "ok"

\* --------------------------------------------------- results of a call
\* What a call did: the events it produced, in order, and how it ended.
Ok(tr) == [tr |-> tr, err |-> "ok"]
Raise(e) == [tr |-> << >>, err |-> e]
\* r1 ; r2 : r2 runs only if r1 did not raise.
Then(r1, r2) == IF r1.err # "ok" THEN r1
                ELSE [tr |-> r1.tr \o r2.tr, err |-> r2.err]

SendEv(dev, st) == [ev |-> "send", device |-> dev, stroke |-> st, dur |-> 0]
SleepEv(dur) == [ev |-> "sleep", device |-> 0, stroke |-> NoStroke, dur |-> dur]

\* interception.send(device, stroke) on the module-wide context
send(dev, st) ==
    LET e == send_error(interception, dev)
    IN IF e = "ok" THEN Ok(<< SendEv(dev, st) >>) ELSE Raise(e)

\* time.sleep(dur): a negative length is rejected with ValueError.
sleep(dur) == IF dur < 0 THEN Raise("ValueError") ELSE Ok(<< SleepEv(dur) >>)

\* Faulty variant: only a missing delay is replaced by the default.
or_default_none_only(delay, default) ==
    IF delay = None THEN default ELSE Get(delay)

\* `delay or DEFAULT`: None and 0 are falsy.
or_default(delay, default) ==
    IF delay = None \/ delay = Some(0) THEN default ELSE Get(delay)

\* Faulty variant: a decorator that lets every call through.
requires_nothing(r) == r

requires_driver(r) ==
    IF ~INTERCEPTION_INSTALLED THEN Raise("DriverNotFoundError") ELSE r

check_button_exists(button) ==
    IF button \notin SUPPORTED_BUTTONS THEN Raise("UnknownButtonError") ELSE Ok(<< >>)

check_key_exists(key) ==
    IF key \notin SUPPORTED_KEYS THEN Raise("UnknownKeyError") ELSE Ok(<< >>)

\* ---------------------------------------------------------- operations
key_down(key, delay) ==
    requires_driver(
      LET k == lower(key) IN
      Then(check_key_exists(k),
      Then(send(keyboard, KeyStroke(KEYBOARD_MAPPING[k], KEY_DOWN, 0)),
           sleep(or_default(delay, KEY_PRESS_DELAY)))))

\* Faulty variant: the release sends the press state again.
key_up_as_down(key, delay) ==
    requires_driver(
      LET k == lower(key) IN
      Then(check_key_exists(k),
      Then(send(keyboard, KeyStroke(KEYBOARD_MAPPING[k], KEY_DOWN, 0)),
           sleep(or_default(delay, KEY_PRESS_DELAY)))))

key_up(key, delay) ==
    requires_driver(
      LET k == lower(key) IN
      Then(check_key_exists(k),
      Then(send(keyboard, KeyStroke(KEYBOARD_MAPPING[k], KEY_UP, 0)),
           sleep(or_default(delay, KEY_PRESS_DELAY)))))

mouse_down(button, delay) ==
    requires_driver(
      Then(check_button_exists(button),
      Then(send(mouse, MouseStroke(from_string(button)[1], MOUSE_MOVE_ABSOLUTE, 0, 0, 0, 0)),
           sleep(or_default(delay, MOUSE_BUTTON_DELAY)))))

mouse_up(button, delay) ==
    requires_driver(
      Then(check_button_exists(button),
      Then(send(mouse, MouseStroke(from_string(button)[2], MOUSE_MOVE_ABSOLUTE, 0, 0, 0, 0)),
           sleep(or_default(delay, MOUSE_BUTTON_DELAY)))))

\* for _ in range(presses): key_down; key_up; if presses > 1: sleep(interval)
RECURSIVE press_loop(_, _, _, _)
press_loop(key, left, presses, interval) ==
    IF left <= 0 THEN Ok(<< >>)
    ELSE Then(key_down(key, None),
         Then(key_up(key, None),
         Then(IF presses > 1 THEN sleep(interval) ELSE Ok(<< >>),
              press_loop(key, left - 1, presses, interval))))

press(key, presses, interval) ==
    requires_driver(
      LET k == lower(key) IN
      Then(check_key_exists(k), press_loop(k, presses, presses, interval)))

\* for c in term.lower(): press(c); sleep(interval)
RECURSIVE write(_, _)
write(term, interval) ==
    requires_driver(
      IF term = << >> THEN Ok(<< >>)
      ELSE Then(press(lower(Head(term)), 1, DEFAULT_INTERVAL),
           Then(sleep(interval),
                write(Tail(term), interval))))



\* _utils.normalize(x, y): a tuple-like x carries both coordinates.
normalize(x, y) == IF x.kind = "tuple" THEN x.v ELSE << x.v[1], Get(y) >>

\* round(a / b) for a >= 0, b > 0
round_div(a, b) == (2 * a + b) \div (2 * b)

\* _utils.to_interception_coordinate(x, y): pixels -> 0..65535
to_interception_coordinate(x, y) ==
    << round_div(COORD_MAX * x, SCREEN_W), round_div(COORD_MAX * y, SCREEN_H) >>

move_to(x, y) ==
    requires_driver(
      LET p == normalize(x, y)
          c == to_interception_coordinate(p[1], p[2])
      IN send(mouse, MouseStroke(0, MOUSE_MOVE_ABSOLUTE, 0, c[1], c[2], 0)))

move_relative(x, y) ==
    requires_driver(send(mouse, MouseStroke(0, MOUSE_MOVE_RELATIVE, 0, x, y, 0)))

\* _utils.get_cursor_pos(): no driver involved, no event on the context
mouse_position == Ok(<< >>)

\* ------------------------------------------------------ example scripts
\* Faulty variant: scaled by 0x10000, so the last pixel leaves the range.
script_coordinate_by_65536(p, size) == ((COORD_MAX + 1) * p) \div size

\* int((0xFFFF * x) / screen_width): the quotient, truncated
script_coordinate(p, size) == (COORD_MAX * p) \div size

\* context.send(mouse, mstroke) on the context the script has just opened
script_send(dev, st) == Ok(<< SendEv(dev, st) >>)

\* _left_click.py: left button down, then up, at pixel (x, y), on mouse 11
left_click_script(x, y) ==
    LET xT == script_coordinate(x, SCREEN_W)
        yT == script_coordinate(y, SCREEN_H)
    IN Then(script_send(11, MouseStroke(MOUSE_LEFT_BUTTON_DOWN, MOUSE_MOVE_ABSOLUTE, 0, xT, yT, 0)),
            script_send(11, MouseStroke(MOUSE_LEFT_BUTTON_UP, MOUSE_MOVE_ABSOLUTE, 0, xT, yT, 0)))

\* _mouse_scrolling.py: one wheel stroke at pixel (x, y), on mouse 13
mouse_scrolling_script(x, y) ==
    LET xT == script_coordinate(x, SCREEN_W)
        yT == script_coordinate(y, SCREEN_H)
    IN script_send(13, MouseStroke(MOUSE_WHEEL, MOUSE_MOVE_ABSOLUTE, MOUSE_WHEEL_UP, xT, yT, 0))

\* for _ in range(clicks): mouse_down; mouse_up; if clicks > 1: sleep(interval)
RECURSIVE click_loop(_, _, _, _)
click_loop(button, left, clicks, interval) ==
    IF left <= 0 THEN Ok(<< >>)
    ELSE Then(mouse_down(button, None),
         Then(mouse_up(button, None),
         Then(IF clicks > 1 THEN sleep(interval) ELSE Ok(<< >>),
              click_loop(button, left - 1, clicks, interval))))

\* Faulty variant: `if x:` in place of `if x is not None:`, so x = 0 counts
\* as no location.
click_truthy_location(x, y, button, clicks, interval, delay) ==
    requires_driver(
      Then(check_button_exists(button),
      Then(IF x.kind = "tuple" \/ (x.kind = "int" /\ x.v[1] # 0)
           THEN Then(move_to(x, y), sleep(delay)) ELSE Ok(<< >>),
           click_loop(button, clicks, clicks, interval))))

\* Faulty variant: the button is checked only after the move.
click_moves_first(x, y, button, clicks, interval, delay) ==
    requires_driver(
      Then(IF x.kind # "none" THEN Then(move_to(x, y), sleep(delay)) ELSE Ok(<< >>),
      Then(check_button_exists(button),
           click_loop(button, clicks, clicks, interval))))

click(x, y, button, clicks, interval, delay) ==
    requires_driver(
      Then(check_button_exists(button),
      Then(IF x.kind # "none" THEN Then(move_to(x, y), sleep(delay)) ELSE Ok(<< >>),
           click_loop(button, clicks, clicks, interval))))

NoLocation == [kind |-> "none", v |-> << >>]

left_click(clicks, interval) ==
    requires_driver(click(NoLocation, None, "left", clicks, interval, DEFAULT_CLICK_DELAY))

right_click(clicks, interval) ==
    requires_driver(click(NoLocation, None, "right", clicks, interval, DEFAULT_CLICK_DELAY))

\* Faulty variant: the wheel stroke goes to the default keyboard.
scroll_on_keyboard(direction) ==
    requires_driver(
      LET amount == IF direction = "up" THEN MOUSE_WHEEL_UP ELSE MOUSE_WHEEL_DOWN
      IN Then(send(keyboard, MouseStroke(MOUSE_WHEEL, 0, amount, 0, 0, 0)),
              sleep(SCROLL_DELAY)))

scroll(direction) ==
    requires_driver(
      LET amount == IF direction = "up" THEN MOUSE_WHEEL_UP ELSE MOUSE_WHEEL_DOWN
      IN Then(send(mouse, MouseStroke(MOUSE_WHEEL, 0, amount, 0, 0, 0)),
              sleep(SCROLL_DELAY)))

\* The action enclosed by a `with hold_...(...)` block: caller's code.
Bodies == {"pass", "press", "move", "press_unknown", "write_unknown"}

body_result(b) ==
    CASE b = "pass"          -> Ok(<< >>)
      [] b = "press"         -> press("1", 1, DEFAULT_INTERVAL)
      [] b = "move"          -> move_to([kind |-> "tuple", v |-> << SCREEN_W, SCREEN_H >>], None)
      [] b = "press_unknown" -> press("foo", 1, DEFAULT_INTERVAL)
      [] b = "write_unknown" -> write(<< "1", "#" >>, DEFAULT_WRITE_INTERVAL)

\* Faulty variant: no finally, the release is skipped when the body fails.
try_no_finally(body, release) == Then(body, release)

\* try: yield  finally: release   -- the release runs whatever the body did;
\* the body's failure propagates unless the release itself raises.
try_finally(body, release) ==
    [tr |-> body.tr \o release.tr,
     err |-> IF release.err # "ok" THEN release.err ELSE body.err]

hold_mouse(button, b) ==
    requires_driver(
      Then(mouse_down(button, None),
           try_finally(body_result(b), mouse_up(button, None))))

hold_key(key, b) ==
    requires_driver(
      Then(key_down(key, None),
           try_finally(body_result(b), key_up(key, None))))


\* ------------------------------------------------- capture / listen loops
Loops == {"capture_keyboard", "capture_mouse", "listen_to_keyboard", "listen_to_mouse"}

\* Filter masks, as the set of stroke states they let through.
FILTER_KEY_DOWN == {KEY_DOWN}
FILTER_KEY_ALL == {KEY_DOWN, KEY_UP}
FILTER_MOUSE_LEFT_BUTTON_DOWN == {MOUSE_LEFT_BUTTON_DOWN}
FILTER_MOUSE_ALL == {0, MOUSE_LEFT_BUTTON_DOWN, MOUSE_LEFT_BUTTON_UP, 4, 8, 16, 32,
                     64, 128, 256, 512, MOUSE_WHEEL}

\* The set_filter calls each loop makes before its try block, in order.
loop_filters(loop) ==
    CASE loop = "capture_keyboard"   -> << << "is_keyboard", FILTER_KEY_DOWN >> >>
      [] loop = "capture_mouse"      -> << << "is_mouse", FILTER_MOUSE_LEFT_BUTTON_DOWN >>,
                                           << "is_keyboard", FILTER_KEY_DOWN >> >>
      [] loop = "listen_to_keyboard" -> << << "is_keyboard", FILTER_KEY_ALL >> >>
      [] loop = "listen_to_mouse"    -> << << "is_mouse", FILTER_MOUSE_ALL >>,
                                           << "is_keyboard", FILTER_KEY_DOWN >> >>

\* Faulty variant: the device is not looked at, and a mouse stroke is
\* compared by its first field, its state.
loop_check_any_device(loop, dev, st) ==
    IF st.type = "key" THEN (IF st.code = 1 THEN "exit" ELSE "continue")
    ELSE IF st.state = 1 THEN "exit" ELSE "continue"

\* Faulty variant: Escape counts only when it comes from the default keyboard.
loop_check_default_keyboard(loop, dev, st) ==
    IF st.type # "key" THEN (IF is_keyboard(dev) THEN "AttributeError" ELSE "continue")
    ELSE IF st.code = 1 /\ dev = keyboard THEN "exit" ELSE "continue"

\* The test after receive: "exit" (return device), "continue" (re-send), or
\* the error raised by reading .code of a stroke that has none.
loop_check(loop, dev, st) ==
    IF loop \in {"capture_keyboard", "listen_to_keyboard"}
    THEN IF st.type # "key" THEN "AttributeError"
         ELSE IF st.code = 1 THEN "exit" ELSE "continue"
    ELSE IF is_keyboard(dev)
         THEN IF st.type # "key" THEN "AttributeError"
              ELSE IF st.code = 1 THEN "exit" ELSE "continue"
         ELSE "continue"

\* Faulty variant: the new mask is added to the one in force.
set_filter_accumulates(ctx, predicate, mask) ==
    IF predicate = "is_keyboard" THEN [ctx EXCEPT !.kmask = @ \cup mask]
    ELSE [ctx EXCEPT !.mmask = @ \cup mask]

\* set_filter(predicate, mask): overwrite the mask of the addressed type.
set_filter(ctx, predicate, mask) ==
    IF predicate = "is_keyboard" THEN [ctx EXCEPT !.kmask = mask]
    ELSE [ctx EXCEPT !.mmask = mask]

\* Is a raw stroke surfaced to the context's owner (else it passes to the OS)?
surfaced(ctx, e) ==
    IF is_keyboard(e.device) THEN e.stroke.state \in ctx.kmask
    ELSE IF is_mouse(e.device) THEN e.stroke.state \in ctx.mmask
    ELSE FALSE

\* The strokes of a stream, from the first surfaced one on.
RECURSIVE from_surfaced(_, _)
from_surfaced(ctx, s) ==
    IF s = << >> THEN << >>
    ELSE IF surfaced(ctx, Head(s)) THEN s
    ELSE from_surfaced(ctx, Tail(s))

\* _destroy_context(): releases the handle; harmless on a closed context.
destroy_context(ctx) == [ctx EXCEPT !.open = FALSE]

\* Raw strokes the devices may produce while a loop runs.
Event(dev, st) == [device |-> dev, stroke |-> st]
Events ==
    { Event(1, KeyStroke(ESC, KEY_DOWN, 0)),
      Event(2, KeyStroke(ESC, KEY_DOWN, 0)),
      Event(2, KeyStroke(ESC, KEY_UP, 0)),
      Event(1, KeyStroke(M, KEY_DOWN, 0)),
      Event(2, KeyStroke(M, KEY_UP, 0)),
      Event(11, MouseStroke(MOUSE_LEFT_BUTTON_DOWN, MOUSE_MOVE_RELATIVE, 0, 0, 0, 0)),
      Event(12, MouseStroke(MOUSE_LEFT_BUTTON_UP, MOUSE_MOVE_RELATIVE, 0, 0, 0, 0)) }

Streams == UNION { [1 .. n -> Events] : n \in 0 .. MaxStream }

\* A native call made on the loop's context; ok = FALSE when the driver failed it.
Native(op, dev, st, ok) == [op |-> op, device |-> dev, stroke |-> st, ok |-> ok]

\* An exception leaves the try block: the finally clause runs next.
Unwind(e) ==
    /\ exc' = e
    /\ pc' = "finally"

\* --------------------------------------------------------------- initial
Init ==
    /\ INTERCEPTION_INSTALLED \in BOOLEAN
    /\ interception = IF INTERCEPTION_INSTALLED THEN NewContext ELSE NoContext
    /\ call = [op |-> "load"]
    /\ trace = << >>
    /\ outcome = "ok"
    /\ result = 0
    /\ pc = "idle"
    /\ context = NoContext
    /\ pending = << >>
    /\ device = 0
    /\ stroke = NoStroke
    /\ exc = "none"
    /\ ctxlog = << >>

\* ------------------------------------------------------- input API calls
\* One call of the input API: record it, its events and its outcome; the
\* call is over, its value or its exception goes to the caller next.
Do(c, r) ==
    /\ call' = c
    /\ trace' = r.tr
    /\ outcome' = r.err
    /\ result' = 0
    /\ pc' = "done"
    /\ UNCHANGED << INTERCEPTION_INSTALLED, interception >>
    /\ UNCHANGED << context, pending, device, stroke, exc, ctxlog >>

Delays == {None, Some(0), Some(40), Some(-5)}
\* click's delay between moving and clicking: the default, or none at all.
ClickDelays == {DEFAULT_CLICK_DELAY, 0}
Locations == { << NoLocation, None >>,
               << [kind |-> "int", v |-> << 0 >>], Some(0) >>,
               << [kind |-> "int", v |-> << 1 >>], Some(SCREEN_H) >>,
               << [kind |-> "tuple", v |-> << SCREEN_W, 1 >>], None >> }
\* Every pixel of the screen, its right and bottom edge included, given
\* as x and y or as one pair.
MoveLocations ==
    { << [kind |-> "int", v |-> << x >>], Some(y) >> : x \in 0 .. SCREEN_W, y \in 0 .. SCREEN_H }
    \cup { << [kind |-> "tuple", v |-> << x, y >>], None >> : x \in 0 .. SCREEN_W, y \in 0 .. SCREEN_H }
Terms == UNION { [1 .. n -> Chars] : n \in 0 .. MaxTerm }

Press ==
    /\ pc = "idle"
    /\ \E key \in KeyNames, presses \in 0 .. MaxPresses :
           Do([op |-> "press", name |-> key, n |-> presses],
              press(key, presses, DEFAULT_INTERVAL))

Write ==
    /\ pc = "idle"
    /\ \E term \in Terms :
           Do([op |-> "write", term |-> term], write(term, DEFAULT_WRITE_INTERVAL))

KeyDown ==
    /\ pc = "idle"
    /\ \E key \in KeyNames, delay \in Delays :
           Do([op |-> "key_down", name |-> key, delay |-> delay], key_down(key, delay))

KeyUp ==
    /\ pc = "idle"
    /\ \E key \in KeyNames, delay \in Delays :
           Do([op |-> "key_up", name |-> key, delay |-> delay], key_up(key, delay))

MouseDown ==
    /\ pc = "idle"
    /\ \E button \in ButtonNames, delay \in Delays :
           Do([op |-> "mouse_down", name |-> button, delay |-> delay], mouse_down(button, delay))

MouseUp ==
    /\ pc = "idle"
    /\ \E button \in ButtonNames, delay \in Delays :
           Do([op |-> "mouse_up", name |-> button, delay |-> delay], mouse_up(button, delay))

Click ==
    /\ pc = "idle"
    /\ \E loc \in Locations, button \in ButtonNames, clicks \in 0 .. MaxPresses,
          delay \in ClickDelays :
           Do([op |-> "click", name |-> button, n |-> clicks, x |-> loc[1], y |-> loc[2],
               wait |-> delay],
              click(loc[1], loc[2], button, clicks, DEFAULT_INTERVAL, delay))

LeftClick ==
    /\ pc = "idle"
    /\ \E clicks \in 0 .. MaxPresses :
           Do([op |-> "left_click", name |-> "left", n |-> clicks],
              left_click(clicks, DEFAULT_INTERVAL))

RightClick ==
    /\ pc = "idle"
    /\ \E clicks \in 0 .. MaxPresses :
           Do([op |-> "right_click", name |-> "right", n |-> clicks],
              right_click(clicks, DEFAULT_INTERVAL))

MoveTo ==
    /\ pc = "idle"
    /\ \E loc \in MoveLocations :
           Do([op |-> "move_to", x |-> loc[1], y |-> loc[2]], move_to(loc[1], loc[2]))

MoveRelative ==
    /\ pc = "idle"
    /\ \E dx \in {0, 1}, dy \in {0, 1} :
           Do([op |-> "move_relative", dx |-> dx, dy |-> dy], move_relative(dx, dy))

Scroll ==
    /\ pc = "idle"
    /\ \E direction \in {"up", "down"} :
           Do([op |-> "scroll", name |-> direction], scroll(direction))

\* The example scripts open a context of their own: they need the driver.
LeftClickScript ==
    /\ pc = "idle"
    /\ INTERCEPTION_INSTALLED
    /\ \E x \in 0 .. SCREEN_W, y \in 0 .. SCREEN_H :
           Do([op |-> "left_click_script", px |-> x, py |-> y], left_click_script(x, y))

MouseScrollingScript ==
    /\ pc = "idle"
    /\ INTERCEPTION_INSTALLED
    /\ \E x \in 0 .. SCREEN_W, y \in 0 .. SCREEN_H :
           Do([op |-> "mouse_scrolling_script", px |-> x, py |-> y],
              mouse_scrolling_script(x, y))

MousePosition ==
    /\ pc = "idle"
    /\ Do([op |-> "mouse_position"], mouse_position)

HoldKey ==
    /\ pc = "idle"
    /\ \E key \in KeyNames, b \in Bodies :
           Do([op |-> "hold_key", name |-> key, body |-> b], hold_key(key, b))

HoldMouse ==
    /\ pc = "idle"
    /\ \E button \in ButtonNames, b \in Bodies :
           Do([op |-> "hold_mouse", name |-> button, body |-> b], hold_mouse(button, b))

\* ----------------------------------------------------------- loop steps
\* A loop is called.  Without the driver the decorator raises at once; with
\* it the loop opens a context of its own: context = Interception().  (A
\* constructor that fails leaves no context behind and is not modelled.)
StartLoop ==
    /\ pc = "idle"
    /\ \E loop \in Loops, stream \in Streams :
         /\ call' = [op |-> loop, stream |-> stream, filters |-> 0]
         /\ trace' = << >>
         /\ result' = 0
         /\ IF ~INTERCEPTION_INSTALLED
            THEN /\ outcome' = "DriverNotFoundError"
                 /\ pc' = "done"
                 /\ UNCHANGED << context, pending, device, stroke, exc, ctxlog >>
            ELSE /\ outcome' = "running"
                 /\ pc' = "set_filter"
                 /\ context' = NewContext
                 /\ pending' = stream
                 /\ device' = 0
                 /\ stroke' = NoStroke
                 /\ exc' = "none"
                 /\ ctxlog' = << >>
    /\ UNCHANGED << INTERCEPTION_INSTALLED, interception >>

\* context.set_filter(...), before the try block: a failure here leaves the
\* function at once, no finally clause is in force yet.
SetFilter ==
    /\ pc = "set_filter"
    /\ LET fs == loop_filters(call.op)
           f == fs[call.filters + 1]
       IN \/ /\ context' = set_filter(context, f[1], f[2])
             /\ ctxlog' = Append(ctxlog, Native("set_filter", 0, NoStroke, TRUE))
             /\ call' = [call EXCEPT !.filters = @ + 1]
             /\ pc' = IF call.filters + 1 = Len(fs) THEN "wait" ELSE "set_filter"
             /\ UNCHANGED << outcome, exc >>
          \/ /\ ctxlog' = Append(ctxlog, Native("set_filter", 0, NoStroke, FALSE))
             /\ exc' = "DriverError"
             /\ outcome' = "DriverError"
             /\ pc' = "done"
             /\ UNCHANGED << context, call >>
    /\ UNCHANGED << INTERCEPTION_INSTALLED, interception, trace, result,
                    pending, device, stroke >>

\* device = context.wait(): blocks until a stroke that passes the filters is
\* pending; strokes that do not pass go on to the OS unseen.
Wait ==
    /\ pc = "wait"
    /\ IF wait_error(context) # "ok"
       THEN /\ Unwind(wait_error(context))
            /\ UNCHANGED << pending, device, ctxlog >>
       ELSE \/ /\ from_surfaced(context, pending) # << >>
               /\ pending' = from_surfaced(context, pending)
               /\ device' = Head(pending').device
               /\ ctxlog' = Append(ctxlog, Native("wait", device', NoStroke, TRUE))
               /\ pc' = "receive"
               /\ UNCHANGED exc
            \/ /\ ctxlog' = Append(ctxlog, Native("wait", 0, NoStroke, FALSE))
               /\ Unwind("DriverError")
               /\ UNCHANGED << pending, device >>
    /\ UNCHANGED << INTERCEPTION_INSTALLED, interception, context, stroke >>
    /\ UNCHANGED apivars

\* stroke = context.receive(device), then the Escape test.
Receive ==
    /\ pc = "receive"
    /\ IF receive_error(context, device, pending) # "ok"
       THEN /\ Unwind(receive_error(context, device, pending))
            /\ UNCHANGED << pending, stroke, ctxlog, result >>
       ELSE \/ /\ stroke' = Head(pending).stroke
               /\ pending' = Tail(pending)
               /\ ctxlog' = Append(ctxlog, Native("receive", device, stroke', TRUE))
               /\ LET t == loop_check(call.op, device, stroke')
                  IN CASE t = "exit"     -> /\ result' = device
                                            /\ pc' = "finally"
                                            /\ UNCHANGED exc
                       [] t = "continue" -> /\ pc' = "send"
                                            /\ UNCHANGED << exc, result >>
                       [] OTHER          -> /\ Unwind(t)
                                            /\ UNCHANGED result
            \/ /\ ctxlog' = Append(ctxlog, Native("receive", device, NoStroke, FALSE))
               /\ Unwind("DriverError")
               /\ UNCHANGED << pending, stroke, result >>
    /\ UNCHANGED << INTERCEPTION_INSTALLED, interception, context, device,
                    call, trace, outcome >>

\* Faulty variant: the stroke is handed back on the default keyboard.
SendBackToDefault ==
    /\ pc = "send"
    /\ LET e == send_error(context, keyboard)
       IN IF e # "ok"
          THEN /\ Unwind(e)
               /\ UNCHANGED ctxlog
          ELSE \/ /\ ctxlog' = Append(ctxlog, Native("send", keyboard, stroke, TRUE))
                  /\ pc' = "wait"
                  /\ UNCHANGED exc
               \/ /\ ctxlog' = Append(ctxlog, Native("send", keyboard, stroke, FALSE))
                  /\ Unwind("DriverError")
    /\ UNCHANGED << INTERCEPTION_INSTALLED, interception, context, pending,
                    device, stroke >>
    /\ UNCHANGED apivars

\* context.send(device, stroke): hand the stroke back for normal delivery.
SendBack ==
    /\ pc = "send"
    /\ LET e == send_error(context, device)
       IN IF e # "ok"
          THEN /\ Unwind(e)
               /\ UNCHANGED ctxlog
          ELSE \/ /\ ctxlog' = Append(ctxlog, Native("send", device, stroke, TRUE))
                  /\ pc' = "wait"
                  /\ UNCHANGED exc
               \/ /\ ctxlog' = Append(ctxlog, Native("send", device, stroke, FALSE))
                  /\ Unwind("DriverError")
    /\ UNCHANGED << INTERCEPTION_INSTALLED, interception, context, pending,
                    device, stroke >>
    /\ UNCHANGED apivars

\* Faulty variant: the finally clause tears down the module-wide context.
FinallyOnModuleContext ==
    /\ pc = "finally"
    /\ interception' = destroy_context(interception)
    /\ ctxlog' = ctxlog
    /\ outcome' = IF exc = "none" THEN "ok" ELSE exc
    /\ pc' = "done"
    /\ UNCHANGED << INTERCEPTION_INSTALLED, context, call, trace, result,
                    pending, device, stroke, exc >>

\* finally: context._destroy_context(); then the return or the re-raise.
Finally ==
    /\ pc = "finally"
    /\ context' = destroy_context(context)
    /\ ctxlog' = IF context.open
                 THEN Append(ctxlog, Native("close", 0, NoStroke, TRUE))
                 ELSE ctxlog
    /\ outcome' = IF exc = "none" THEN "ok" ELSE exc
    /\ pc' = "done"
    /\ UNCHANGED << INTERCEPTION_INSTALLED, interception, call, trace, result,
                    pending, device, stroke, exc >>

\* The caller has the value or the exception in hand; the frame and its
\* locals are gone.
Return ==
    /\ pc = "done"
    /\ pc' = "idle"
    /\ context' = NoContext
    /\ pending' = << >>
    /\ device' = 0
    /\ stroke' = NoStroke
    /\ exc' = "none"
    /\ ctxlog' = << >>
    /\ call' = [op |-> "returned"]
    /\ trace' = << >>
    /\ outcome' = "ok"
    /\ result' = 0
    /\ UNCHANGED << INTERCEPTION_INSTALLED, interception >>

\* Another thread tears the loop's context down while the loop is inside
\* its try block.
ConcurrentClose ==
    /\ pc \in {"wait", "receive", "send"}
    /\ context.open
    /\ context' = destroy_context(context)
    /\ ctxlog' = Append(ctxlog, Native("close", 0, NoStroke, TRUE))
    /\ UNCHANGED << INTERCEPTION_INSTALLED, interception, pc, pending, device,
                    stroke, exc >>
    /\ UNCHANGED apivars

LoopStep == SetFilter \/ Wait \/ Receive \/ SendBack \/ Finally \/ Return

Next ==
    \/ Press
    \/ Write
    \/ KeyDown
    \/ KeyUp
    \/ MouseDown
    \/ MouseUp
    \/ Click
    \/ LeftClick
    \/ RightClick
    \/ MoveTo
    \/ MoveRelative
    \/ Scroll
    \/ MousePosition
    \/ LeftClickScript
    \/ MouseScrollingScript
    \/ HoldKey
    \/ HoldMouse
    \/ StartLoop
    \/ SetFilter
    \/ Wait
    \/ Receive
    \/ SendBack
    \/ Finally
    \/ Return
    \/ ConcurrentClose

Spec == Init /\ [][Next]_vars

\* The thread running a loop keeps running it.
FairSpec == Spec /\ WF_vars(LoopStep)

\* ------------------------------------------- set_filter calls on a context
\* A client of a context may call set_filter any number of times, with any
\* predicate and any mask; the calls made so far are kept in ctxlog.
FilterPredicates == {"is_keyboard", "is_mouse"}
FilterMasks == { {}, FILTER_KEY_DOWN, FILTER_KEY_ALL,
                 FILTER_MOUSE_LEFT_BUTTON_DOWN, FILTER_MOUSE_ALL }
FilterCall(predicate, mask) == [op |-> "set_filter", predicate |-> predicate, mask |-> mask]

FilterInit ==
    /\ INTERCEPTION_INSTALLED = TRUE
    /\ interception = NewContext
    /\ call = [op |-> "set_filter"]
    /\ trace = << >>
    /\ outcome = "ok"
    /\ result = 0
    /\ pc = "filters"
    /\ context = NewContext
    /\ pending = << >>
    /\ device = 0
    /\ stroke = NoStroke
    /\ exc = "none"
    /\ ctxlog = << >>

SetFilterCall ==
    /\ pc = "filters"
    /\ Len(ctxlog) < MaxFilterCalls
    /\ \E predicate \in FilterPredicates, mask \in FilterMasks :
         /\ context' = set_filter(context, predicate, mask)
         /\ ctxlog' = Append(ctxlog, FilterCall(predicate, mask))
    /\ UNCHANGED << INTERCEPTION_INSTALLED, interception, pc, pending, device,
                    stroke, exc >>
    /\ UNCHANGED apivars

FilterNext == SetFilterCall

FilterSpec == FilterInit /\ [][FilterNext]_vars

\* ------------------------------------------------------------ properties
\* The strokes a call sent, in order, and the waits it made.
IsSend(e) == e.ev = "send"
Sends(tr) == SelectSeq(tr, IsSend)
IsIntervalSleep(e) == e.ev = "sleep" /\ e.dur = DEFAULT_INTERVAL
IntervalSleeps(tr) == SelectSeq(tr, IsIntervalSleep)
Served(op) == pc = "done" /\ call.op = op

\* C1: with the driver available, press(key, presses = n) for a supported key
\* sends exactly 2n strokes to the default keyboard, KEY_DOWN and KEY_UP of
\* scancode(key) in strict alternation starting with KEY_DOWN, and ends well.
C1_PressAlternates ==
    (Served("press") /\ INTERCEPTION_INSTALLED /\ lower(call.name) \in SUPPORTED_KEYS)
    => /\ outcome = "ok"
       /\ Len(Sends(trace)) = 2 * call.n
       /\ \A i \in 1 .. Len(Sends(trace)) :
            Sends(trace)[i] =
              SendEv(keyboard,
                     KeyStroke(KEYBOARD_MAPPING[lower(call.name)],
                               IF i % 2 = 1 THEN KEY_DOWN ELSE KEY_UP, 0))

C1_Witness ==
    /\ Served("press") /\ INTERCEPTION_INSTALLED
    /\ call.name = "M" /\ call.n = 2
    /\ Len(Sends(trace)) = 4

\* C2 (as claimed): click with clicks = n > 1 performs n down/up pairs of the
\* button and exactly n - 1 waits of `interval`, none after the last click.
C2_IntervalWaitsBetweenClicksOnly ==
    (Served("click") /\ INTERCEPTION_INSTALLED /\ call.name = "left"
       /\ call.x = NoLocation /\ call.n > 1)
    => /\ outcome = "ok"
       /\ Len(Sends(trace)) = 2 * call.n
       /\ \A i \in 1 .. Len(Sends(trace)) :
            Sends(trace)[i].stroke.state =
              IF i % 2 = 1 THEN MOUSE_LEFT_BUTTON_DOWN ELSE MOUSE_LEFT_BUTTON_UP
       /\ Len(IntervalSleeps(trace)) = call.n - 1
       /\ ~IsIntervalSleep(trace[Len(trace)])

\* An operation given a symbolic name, and whether the name is supported.
NamedKeyOps == {"press", "key_down", "key_up", "hold_key"}
NamedButtonOps == {"click", "mouse_down", "mouse_up", "hold_mouse"}
UnknownName ==
    /\ pc = "done"
    /\ \/ call.op \in NamedKeyOps /\ lower(call.name) \notin SUPPORTED_KEYS
       \/ call.op \in NamedButtonOps /\ call.name \notin SUPPORTED_BUTTONS
UnknownNameError ==
    IF call.op \in NamedKeyOps THEN "UnknownKeyError" ELSE "UnknownButtonError"

\* C3 (as claimed): an operation called with a name outside the supported set
\* fails with UnknownKeyError / UnknownButtonError and sends nothing.
C3_UnknownNameAlwaysUnknownError ==
    UnknownName => (outcome = UnknownNameError /\ Sends(trace) = << >>)

\* C3 (amended): with the driver available, an operation called with a name
\* outside the supported set fails with UnknownKeyError / UnknownButtonError;
\* without the driver it fails with DriverNotFoundError; in both cases the
\* operation made no send at all.
C3_UnknownNameRejectedBeforeSend ==
    UnknownName
    => /\ outcome = IF INTERCEPTION_INSTALLED THEN UnknownNameError
                    ELSE "DriverNotFoundError"
       /\ Sends(trace) = << >>
       /\ trace = << >>

C3_Witness ==
    /\ Served("click") /\ INTERCEPTION_INSTALLED
    /\ call.name = "LEFT" /\ call.x # NoLocation /\ call.n > 0
    /\ outcome = "UnknownButtonError"

\* C4 (as claimed): write(term) with an unsupported character anywhere in term
\* fails with UnknownKeyError and has sent no stroke for any character.
HasUnknownChar(term) == \E i \in 1 .. Len(term) : lower(term[i]) \notin SUPPORTED_KEYS
C4_WriteNeverPartial ==
    (Served("write") /\ INTERCEPTION_INSTALLED /\ HasUnknownChar(call.term))
    => (outcome = "UnknownKeyError" /\ Sends(trace) = << >>)

\* Strokes that a keyboard-down filter surfaces, and the Escape among them.
IsKeyDownEvent(e) == is_keyboard(e.device) /\ e.stroke.state = KEY_DOWN
SurfacedKeyDown(s) == SelectSeq(s, IsKeyDownEvent)
HasEsc(s) == \E i \in 1 .. Len(s) : s[i].stroke.code = ESC
FirstEsc(s) == CHOOSE i \in 1 .. Len(s) :
                 /\ s[i].stroke.code = ESC
                 /\ \A j \in 1 .. i - 1 : s[j].stroke.code # ESC
IsLoopCall(n) == n.op \in {"wait", "receive", "send"}
LoopCalls(log) == SelectSeq(log, IsLoopCall)
IsFailedCall(n) == ~n.ok
DriverFailed == SelectSeq(ctxlog, IsFailedCall) # << >>

\* C5: capture_keyboard, fed a stream whose first surfaced Escape comes from
\* device d, ends; when no driver call failed it returns d, and the receive of
\* that Escape is the last wait, receive or send it made: what follows the
\* Escape in the stream is left untouched.
C5_ReturnsAtFirstEsc ==
    (Served("capture_keyboard") /\ outcome = "ok")
    => LET s == SurfacedKeyDown(call.stream)
           k == FirstEsc(s)
           calls == LoopCalls(ctxlog)
       IN /\ HasEsc(s)
          /\ result = s[k].device
          /\ Len(calls) = 3 * (k - 1) + 2
          /\ calls[Len(calls)] = Native("receive", s[k].device, s[k].stroke, TRUE)
          /\ SurfacedKeyDown(pending) = SubSeq(s, k + 1, Len(s))

C5_FailsOnlyOnDriverFailure ==
    (Served("capture_keyboard") /\ INTERCEPTION_INSTALLED /\ outcome # "ok")
    => (DriverFailed \/ outcome = "ContextClosedError")

C5_CaptureKeyboardEndsAtEsc ==
    /\ [](C5_ReturnsAtFirstEsc /\ C5_FailsOnlyOnDriverFailure)
    /\ (/\ call.op = "capture_keyboard"
        /\ pc \notin {"idle", "done"}
        /\ HasEsc(SurfacedKeyDown(call.stream)))
       ~> Served("capture_keyboard")

C5_Witness ==
    /\ Served("capture_keyboard") /\ outcome = "ok" /\ result = 2
    /\ call.stream = << Event(1, KeyStroke(M, KEY_DOWN, 0)),
                        Event(2, KeyStroke(ESC, KEY_DOWN, 0)),
                        Event(1, KeyStroke(ESC, KEY_DOWN, 0)) >>
    /\ pending = << Event(1, KeyStroke(ESC, KEY_DOWN, 0)) >>

\* C6 (as claimed): whenever a capture/listen loop has left, by return or by any
\* failure raised after its context was opened, that context is closed.
C6_ContextClosedOnEveryExit ==
    (pc = "done" /\ call.op \in Loops) => ~context.open

\* The strokes of a hold: the press, the release.
HoldDown(c) ==
    IF c.op = "hold_key"
    THEN SendEv(keyboard, KeyStroke(KEYBOARD_MAPPING[lower(c.name)], KEY_DOWN, 0))
    ELSE SendEv(mouse, MouseStroke(from_string(c.name)[1], MOUSE_MOVE_ABSOLUTE, 0, 0, 0, 0))
HoldUp(c) ==
    IF c.op = "hold_key"
    THEN SendEv(keyboard, KeyStroke(KEYBOARD_MAPPING[lower(c.name)], KEY_UP, 0))
    ELSE SendEv(mouse, MouseStroke(from_string(c.name)[2], MOUSE_MOVE_ABSOLUTE, 0, 0, 0, 0))
Count(seq, x) == Cardinality({i \in 1 .. Len(seq) : seq[i] = x})

\* C7: once hold_key(k) / hold_mouse(b) has sent its down stroke, the strokes
\* of the whole block are DOWN, the strokes of the enclosed action, UP; the up
\* stroke is sent exactly once, whether the enclosed action ended well or
\* failed, and the call ends the way the enclosed action ended.
C7_HoldAlwaysReleases ==
    (/\ pc = "done" /\ call.op \in {"hold_key", "hold_mouse"}
     /\ Sends(trace) # << >>)
    => LET s == Sends(trace)
           b == body_result(call.body)
       IN /\ s = << HoldDown(call) >> \o Sends(b.tr) \o << HoldUp(call) >>
          /\ Count(s, HoldUp(call)) = 1
          /\ Count(s, HoldDown(call)) = 1
          /\ outcome = b.err

C7_Witness ==
    /\ Served("hold_key") /\ call.name = "M" /\ call.body = "write_unknown"
    /\ outcome = "UnknownKeyError"
    /\ Len(Sends(trace)) = 4

\* Operations that need the driver.
DriverOps == {"move_to", "move_relative", "click", "left_click", "right_click",
              "press", "write", "scroll", "key_down", "key_up", "mouse_down",
              "mouse_up", "hold_key", "hold_mouse"} \cup Loops

\* C8: when the driver could not be initialised at load, loading does not
\* fail; every driver-dependent operation fails with DriverNotFoundError,
\* none of its body runs, no stroke is sent and no context is opened;
\* mouse_position still answers.
C8_LazyDriverNotFound ==
    ~INTERCEPTION_INSTALLED
    => /\ call.op = "load" => outcome = "ok"
       /\ (pc = "done" /\ call.op \in DriverOps)
            => /\ outcome = "DriverNotFoundError"
               /\ trace = << >>
               /\ ctxlog = << >>
               /\ context = NoContext
       /\ pc \in {"idle", "done"}
       /\ Served("mouse_position") => outcome = "ok"

C8_Witness ==
    /\ ~INTERCEPTION_INSTALLED
    /\ Served("hold_key") /\ call.name = "m" /\ call.body = "press"
    /\ outcome = "DriverNotFoundError"

\* C9: on a context that has been torn down, wait, receive and send fail with
\* ContextClosedError without making a native call; a second teardown does
\* not fail and leaves the context closed.
C9_Step ==
    /\ (pc \in {"wait", "receive", "send"} /\ ~context.open /\ pc' # pc)
         => /\ pc' = "finally"
            /\ exc' = "ContextClosedError"
            /\ ctxlog' = ctxlog
    /\ (pc = "finally" /\ ~context.open /\ pc' # pc)
         => /\ pc' = "done"
            /\ ~context'.open
            /\ ctxlog' = ctxlog
            /\ outcome' = exc
C9_ClosedContextRejects == [][C9_Step]_vars

C9_Witness ==
    /\ pc = "done" /\ call.op = "listen_to_keyboard"
    /\ outcome = "ContextClosedError"
    /\ ~context.open
    /\ LoopCalls(ctxlog) # << >>
    /\ ctxlog[Len(ctxlog)].op = "close"

\* The loop's context was torn down by another thread while the loop was at
\* its wait: the close follows a completed set_filter or send.
ClosedInWait ==
    \E i \in 2 .. Len(ctxlog) :
        /\ ctxlog[i].op = "close"
        /\ ctxlog[i - 1].op \in {"set_filter", "send"}
        /\ ctxlog[i - 1].ok
NoSendAfterClose ==
    \A i \in 1 .. Len(ctxlog) : \A j \in i + 1 .. Len(ctxlog) :
        ctxlog[i].op = "close" => ctxlog[j].op # "send"

\* C10 (as claimed): when another thread closes the context of a loop that is
\* at its wait, the loop function returns normally to its caller and sends no
\* further stroke.
C10_ConcurrentCloseIsCleanShutdown ==
    (pc = "done" /\ call.op \in Loops /\ ClosedInWait)
    => (outcome = "ok" /\ NoSendAfterClose)

\* ---- C11
\* The mask in force for a device type: the mask of the last call addressed
\* to that type, the empty mask when there was none.
LastMask(log, predicate) ==
    LET idx == { i \in 1 .. Len(log) : log[i].predicate = predicate }
    IN IF idx = {} THEN {}
       ELSE log[CHOOSE i \in idx : \A j \in idx : j <= i].mask

\* C11: after any sequence of set_filter calls on one context the keyboard
\* mask is the mask of the last call addressed to keyboards and the mouse
\* mask the mask of the last call addressed to mice; one more call leaves
\* the mask of the other type as it is, and making it twice is the same as
\* making it once.
C11_FilterMasksPerTypeOverwrite ==
    pc = "filters" =>
        /\ context.kmask = LastMask(ctxlog, "is_keyboard")
        /\ context.mmask = LastMask(ctxlog, "is_mouse")
        /\ \A predicate \in FilterPredicates, mask \in FilterMasks :
             LET once == set_filter(context, predicate, mask)
             IN /\ set_filter(once, predicate, mask) = once
                /\ predicate = "is_keyboard" => once.mmask = context.mmask
                /\ predicate = "is_mouse" => once.kmask = context.kmask

\* capture_mouse's two calls, then the mouse mask is replaced: both masks
\* are in force, the mouse one being the later of the two given.
C11_Witness ==
    /\ pc = "filters"
    /\ ctxlog = << FilterCall("is_mouse", FILTER_MOUSE_LEFT_BUTTON_DOWN),
                   FilterCall("is_keyboard", FILTER_KEY_DOWN),
                   FilterCall("is_mouse", FILTER_MOUSE_ALL) >>
    /\ context.kmask = FILTER_KEY_DOWN
    /\ context.mmask = FILTER_MOUSE_ALL

\* ---- C12
Ids == -2 .. MaxId

SettleOps == {"key_down", "key_up", "mouse_down", "mouse_up"}
DefaultDelay(op) ==
    IF op \in {"key_down", "key_up", "press"} THEN KEY_PRESS_DELAY ELSE MOUSE_BUTTON_DELAY
IsButtonOrKeySend(e) ==
    e.ev = "send" /\ (e.stroke.type = "key" \/ e.stroke.state # 0)

\* C13: a key_down, key_up, mouse_down or mouse_up that sent its stroke and
\* returns has waited a strictly positive time after the stroke: the delay
\* given when it is not 0, the default of its device type when it is 0 or
\* missing (a negative delay is refused by the sleep, the operation raises
\* and does not return).  In press and click every key or button stroke is
\* followed at once by a wait of the default, strictly positive length.
C13_SettleDelayNeverRemoved ==
    /\ (pc = "done" /\ call.op \in SettleOps /\ Sends(trace) # << >>)
       => IF outcome = "ok"
          THEN /\ Len(trace) = 2
               /\ trace[1].ev = "send"
               /\ trace[2].ev = "sleep"
               /\ trace[2].dur > 0
               /\ trace[2].dur = IF call.delay \in {None, Some(0)}
                                 THEN DefaultDelay(call.op)
                                 ELSE Get(call.delay)
          ELSE /\ outcome = "ValueError"
               /\ call.delay # None
               /\ Get(call.delay) < 0
    /\ (pc = "done" /\ call.op \in {"press", "click", "left_click", "right_click"})
       => \A i \in 1 .. Len(trace) :
            IsButtonOrKeySend(trace[i])
            => /\ i < Len(trace)
               /\ trace[i + 1] = SleepEv(DefaultDelay(call.op))
               /\ trace[i + 1].dur > 0

\* key_down was given the delay 0 and waited the default after its stroke.
C13_Witness ==
    /\ Served("key_down")
    /\ call.delay = Some(0)
    /\ outcome = "ok"
    /\ trace = << SendEv(keyboard, KeyStroke(M, KEY_DOWN, 0)), SleepEv(KEY_PRESS_DELAY) >>

\* ---- C14
\* round(65535 * p / size): a tie may go either way (half up, half to even).
RoundRefs(p, size) ==
    { (2 * 65535 * p + size) \div (2 * size), (2 * 65535 * p + size - 1) \div (2 * size) }
Near(coord, p, size) ==
    /\ coord \in 0 .. 65535
    /\ \A ref \in RoundRefs(p, size) : coord - ref \in -1 .. 1
PixelX(c) == IF c.op = "move_to" THEN c.x.v[1] ELSE c.px
PixelY(c) == IF c.op = "move_to"
             THEN (IF c.x.kind = "tuple" THEN c.x.v[2] ELSE Get(c.y))
             ELSE c.py

\* C14: the coordinates of every stroke sent for pixel (x, y) of a W x H
\* screen, 0 <= x <= W and 0 <= y <= H, by move_to and by the example
\* scripts, lie in 0..65535 and are within 1 of round(65535 * x / W) and
\* round(65535 * y / H).
C14_CoordinatesWithinOne ==
    (pc = "done" /\ call.op \in {"move_to", "left_click_script", "mouse_scrolling_script"})
    => \A i \in 1 .. Len(trace) :
         trace[i].ev = "send"
         => /\ Near(trace[i].stroke.x, PixelX(call), SCREEN_W)
            /\ Near(trace[i].stroke.y, PixelY(call), SCREEN_H)

\* The left-click script at a pixel whose exact coordinate is no integer:
\* the truncated value sent is one below the rounded one.
C14_Witness ==
    /\ Served("left_click_script")
    /\ call.px = 1
    /\ Len(trace) = 2
    /\ trace[1].stroke.x = (65535 * 1) \div SCREEN_W
    /\ trace[1].stroke.x + 1 \in RoundRefs(1, SCREEN_W)

\* ---- C15
\* The strokes the loop has received so far, with their devices, in order.
IsOkReceive(n) == n.op = "receive" /\ n.ok
Received(log) ==
    LET r == SelectSeq(log, IsOkReceive)
    IN [i \in 1 .. Len(r) |-> Event(r[i].device, r[i].stroke)]
\* The raw strokes that have arrived and are no longer pending.
Consumed == SubSeq(call.stream, 1, Len(call.stream) - Len(pending))

\* What each loop is to surface: capture_keyboard key-down transitions,
\* capture_mouse left-button-down transitions (and the key-down ones that
\* carry Escape), the listen loops every transition.
PurposeSurfaced(loop, e) ==
    CASE loop = "capture_keyboard" -> is_keyboard(e.device) /\ e.stroke.state = KEY_DOWN
      [] loop = "capture_mouse" ->
           \/ is_mouse(e.device) /\ e.stroke.state = MOUSE_LEFT_BUTTON_DOWN
           \/ is_keyboard(e.device) /\ e.stroke.state = KEY_DOWN
      [] OTHER -> TRUE

\* C15: between two iterations of a loop, the strokes the loop has received
\* are, in order, exactly the arrived strokes its purpose calls for: only
\* key-down transitions in capture_keyboard, of the mouse only
\* left-button-down transitions in capture_mouse, and in listen_to_keyboard
\* and listen_to_mouse every transition that arrived, down or up.
C15_LoopFiltersMatchPurpose ==
    (call.op \in Loops /\ pc \in {"wait", "send"})
    => LET Wanted(e) == PurposeSurfaced(call.op, e)
       IN Received(ctxlog) = SelectSeq(Consumed, Wanted)

\* ---- C16
IsMoveSend(e) == e.ev = "send" /\ e.stroke.type = "mouse" /\ e.stroke.state = 0
IsAbsoluteMoveTo(e, dev) ==
    /\ IsMoveSend(e)
    /\ e.device = dev
    /\ e.stroke.flags = MOUSE_MOVE_ABSOLUTE

\* C16: a click that gets past its checks and is given a location (x is
\* not None: x = 0 and a tuple included) sends exactly one absolute-move
\* stroke, first of all, then waits `delay`, and only then sends its
\* button strokes; given no location it sends no move stroke, only the
\* down/up pair of each click.
C16_ClickMovesOnceIffLocated ==
    (Served("click") /\ INTERCEPTION_INSTALLED /\ call.name \in SUPPORTED_BUTTONS)
    => LET moves == SelectSeq(trace, IsMoveSend)
           buttons == Len(Sends(trace)) - Len(moves)
           down == SendEv(mouse, MouseStroke(from_string(call.name)[1],
                                             MOUSE_MOVE_ABSOLUTE, 0, 0, 0, 0))
       IN /\ outcome = "ok"
          /\ buttons = 2 * call.n
          /\ IF call.x.kind # "none"
             THEN /\ Len(moves) = 1
                  /\ IsAbsoluteMoveTo(trace[1], mouse)
                  /\ trace[2] = SleepEv(call.wait)
                  /\ call.n > 0 => trace[3] = down
             ELSE /\ moves = << >>
                  /\ call.n > 0 => trace[1] = down

\* click(0, 0, "left"): the move, the delay, then the button goes down.
C16_Witness ==
    /\ Served("click")
    /\ outcome = "ok"
    /\ call.x = [kind |-> "int", v |-> << 0 >>]
    /\ call.n = 1
    /\ call.wait = DEFAULT_CLICK_DELAY
    /\ IsAbsoluteMoveTo(trace[1], mouse)
    /\ trace[2] = SleepEv(DEFAULT_CLICK_DELAY)
    /\ trace[3].stroke.state = MOUSE_LEFT_BUTTON_DOWN

\* ---- C17
\* The strokes the loop has handed back, with the devices they went to.
IsOkSend(n) == n.op = "send" /\ n.ok
SentBack(log) ==
    LET r == SelectSeq(log, IsOkSend)
    IN [i \in 1 .. Len(r) |-> Event(r[i].device, r[i].stroke)]

\* C17: in every loop, whenever the loop is about to wait, the strokes it
\* has re-sent are exactly the strokes it has received, each once, unchanged,
\* to the device it came from and in the same order; between a receive and
\* its re-send only the stroke just received is outstanding; and when the
\* loop returns, the one received stroke that was not re-sent is the last
\* one, the Escape that ended it.
C17_PassThroughPreserved ==
    call.op \in Loops
    => LET r == Received(ctxlog)
           s == SentBack(ctxlog)
       IN /\ pc = "wait" => s = r
          /\ pc = "send" => r = s \o << Event(device, stroke) >>
          /\ (pc = "done" /\ outcome = "ok")
             => /\ r # << >>
                /\ s = SubSeq(r, 1, Len(r) - 1)
                /\ r[Len(r)].stroke.type = "key"
                /\ r[Len(r)].stroke.code = ESC
                /\ r[Len(r)].device = result
          /\ Len(s) <= Len(r)
          /\ Len(r) <= Len(s) + 1
          /\ s = SubSeq(r, 1, Len(s))

\* listen_to_mouse has passed on a mouse stroke and a key stroke from two
\* devices and is waiting again.
C17_Witness ==
    /\ call.op = "listen_to_mouse"
    /\ pc = "wait"
    /\ Received(ctxlog) =
         << Event(12, MouseStroke(MOUSE_LEFT_BUTTON_UP, MOUSE_MOVE_RELATIVE, 0, 0, 0, 0)),
            Event(1, KeyStroke(M, KEY_DOWN, 0)) >>
    /\ SentBack(ctxlog) = Received(ctxlog)

\* ---- C18
MouseLoops == {"capture_mouse", "listen_to_mouse"}
IsKeyboardEscape(e) ==
    is_keyboard(e.device) /\ e.stroke.type = "key" /\ e.stroke.code = ESC

\* C18: capture_mouse and listen_to_mouse leave their loop without an
\* exception only on a stroke of scancode 1 received from a keyboard device
\* (id 1..10): never on a mouse stroke, whatever its fields; the id they
\* return is that keyboard's; and they have not returned as long as no such
\* stroke has arrived.
C18_MouseLoopsEndOnlyOnKeyboardEscape ==
    call.op \in MouseLoops
    => /\ result # 0
          => /\ is_keyboard(result)
             /\ result = device
             /\ IsKeyboardEscape(Event(device, stroke))
       /\ (pc = "finally" /\ exc = "none") => result # 0
       /\ (pc = "done" /\ outcome = "ok")
          => /\ result # 0
             /\ Consumed # << >>
             /\ Consumed[Len(Consumed)] = Event(device, stroke)
       /\ (\A i \in 1 .. Len(Consumed) : ~IsKeyboardEscape(Consumed[i]))
          => ~(pc = "done" /\ outcome = "ok")

\* capture_mouse was handed a left-button-down stroke (state 1) by mouse
\* 11, went on, and returned keyboard 2 on its Escape.
C18_Witness ==
    /\ Served("capture_mouse")
    /\ outcome = "ok"
    /\ result = 2
    /\ Received(ctxlog) =
         << Event(11, MouseStroke(MOUSE_LEFT_BUTTON_DOWN, MOUSE_MOVE_RELATIVE, 0, 0, 0, 0)),
            Event(2, KeyStroke(ESC, KEY_DOWN, 0)) >>

\* ---- C19
InputOps == {"move_to", "move_relative", "mouse_position", "click", "left_click",
             "right_click", "press", "write", "scroll", "key_down", "key_up",
             "mouse_down", "mouse_up", "hold_key", "hold_mouse"}
RoutedByType(e) ==
    \/ e.stroke.type = "key" /\ e.device = 1 /\ is_keyboard(e.device)
    \/ e.stroke.type = "mouse" /\ e.device = 11 /\ is_mouse(e.device)

\* C19: with the default devices, every stroke an operation of the input
\* API sends is a KeyStroke sent to device 1, a keyboard slot, or a
\* MouseStroke sent to device 11, a mouse slot: no key stroke goes to a
\* mouse slot, no mouse stroke to a keyboard slot, none outside 1..20.
C19_StrokesRoutedByType ==
    (pc = "done" /\ call.op \in InputOps)
    => \A i \in 1 .. Len(trace) :
         trace[i].ev = "send"
         => /\ RoutedByType(trace[i])
            /\ trace[i].device \in 1 .. 20

\* hold_key around a move: key strokes to device 1 and a mouse stroke to
\* device 11 in one call.
C19_Witness ==
    /\ Served("hold_key")
    /\ call.body = "move"
    /\ outcome = "ok"
    /\ Len(trace) = 5
    /\ trace[1].device = 1 /\ trace[1].stroke.type = "key"
    /\ trace[3].device = 11 /\ trace[3].stroke.type = "mouse"

\* ---- C20
\* C20: a loop works on a context of its own, opened fresh (open, no mask
\* set) when the loop starts; nothing a loop does touches the module-wide
\* context, which stays open with its masks as they were at load; so after
\* a loop has returned or failed, press, click and move_to still go through.
C20_LoopsLeaveModuleContextAlone ==
    INTERCEPTION_INSTALLED
    => /\ interception = NewContext
       /\ (call.op \in Loops /\ pc = "set_filter" /\ call.filters = 0)
          => context = NewContext
       /\ (call.op \in Loops /\ pc = "done")
          => /\ interception.open
             /\ interception.kmask = {} /\ interception.mmask = {}
             /\ press("m", 1, DEFAULT_INTERVAL).err = "ok"
             /\ click(NoLocation, None, "left", 1, DEFAULT_INTERVAL, DEFAULT_CLICK_DELAY).err = "ok"
             /\ move_to([kind |-> "tuple", v |-> << 0, 0 >>], None).err = "ok"

\* capture_mouse has returned: its own context carries its two masks and
\* is closed, the module-wide one is open and carries none.
C20_Witness ==
    /\ Served("capture_mouse")
    /\ outcome = "ok"
    /\ ~context.open
    /\ context.kmask = FILTER_KEY_DOWN
    /\ context.mmask = FILTER_MOUSE_LEFT_BUTTON_DOWN
    /\ interception = NewContext

====
